---- MODULE Spec2Model ----
(***************************************************************************)
(* yt-clipper (src/main.rs): a sequential pipeline of sub-process calls.   *)
(* One run of main() is modelled, one action per stage of main; the        *)
(* external tools (yt-dlp, ffmpeg) and the file system are the             *)
(* environment, whose answers are chosen with \E in each action.           *)
(*                                                                         *)
(* Strings the program builds (URLs, file names, formatted times) are      *)
(* sequences of one-character strings.  Chapter times (f64 seconds in the  *)
(* source) are integers counting milliseconds; for such inputs the f64     *)
(* subtraction followed by "{:.3}" gives exactly the decimal rendering of  *)
(* the integer difference.                                                 *)
(***************************************************************************)
EXTENDS Integers, Sequences, FiniteSets, TLC

\* ------------------------------------------------------------------ bounds
MaxChapters == 2
MaxUrlLen == 4
MaxIndex == 101

\* ------------------------------------------------------- string functions
BS == "\\"

IsPrefix(p, s) == Len(p) <= Len(s) /\ SubSeq(s, 1, Len(p)) = p

\* str::replace: every non-overlapping match, left to right
RECURSIVE Replace(_, _, _)
Replace(s, pat, rep) ==
    IF Len(s) = 0 THEN s
    ELSE IF IsPrefix(pat, s)
         THEN rep \o Replace(SubSeq(s, Len(pat) + 1, Len(s)), pat, rep)
         ELSE <<Head(s)>> \o Replace(Tail(s), pat, rep)

\* a variant that replaces the first match only
RECURSIVE ReplaceFirst(_, _, _)
ReplaceFirst(s, pat, rep) ==
    IF Len(s) = 0 THEN s
    ELSE IF IsPrefix(pat, s)
         THEN rep \o SubSeq(s, Len(pat) + 1, Len(s))
         ELSE <<Head(s)>> \o ReplaceFirst(Tail(s), pat, rep)

clean_url_first_only(u) ==
    ReplaceFirst(ReplaceFirst(ReplaceFirst(u, <<BS, "?">>, <<"?">>),
                              <<BS, "=">>, <<"=">>),
                 <<BS, "&">>, <<"&">>)

clean_url(u) ==
    Replace(Replace(Replace(u, <<BS, "?">>, <<"?">>),
                    <<BS, "=">>, <<"=">>),
            <<BS, "&">>, <<"&">>)

\* sanitize_filename::sanitize on the characters the model uses: the
\* characters illegal in a file name are deleted
IllegalChars == {"/", "?", BS, ":", "*"}

sanitize(s) == SelectSeq(s, LAMBDA c : c \notin IllegalChars)

DigitChar == <<"0", "1", "2", "3", "4", "5", "6", "7", "8", "9">>

RECURSIVE Decimal(_)
Decimal(n) ==
    IF n < 10 THEN <<DigitChar[n + 1]>>
    ELSE Decimal(n \div 10) \o <<DigitChar[(n % 10) + 1]>>

RECURSIVE ZeroPad(_, _)
ZeroPad(s, width) == IF Len(s) < width THEN ZeroPad(<<"0">> \o s, width) ELSE s

\* format!("{:02}", i + 1) without the padding
chapter_num_unpadded(i) == Decimal(i)

\* format!("{:02}", i + 1), i + 1 passed as the 1-based index
chapter_num(i) == ZeroPad(Decimal(i), 2)

\* format!("{}_{}", chapter_num, sanitized_chapter_title)
base_filename(i, title) == chapter_num(i) \o <<"_">> \o sanitize(title)

\* format!("{}_{}.mp4", chapter_num, sanitized_chapter_title)
output_filename(i, title) == base_filename(i, title) \o <<".", "m", "p", "4">>

Abs(n) == IF n < 0 THEN -n ELSE n

\* format!("{:.3}", x) for x = ms / 1000
Fmt3(ms) ==
    (IF ms < 0 THEN <<"-">> ELSE <<>>)
        \o Decimal(Abs(ms) \div 1000) \o <<".">>
        \o ZeroPad(Decimal(Abs(ms) % 1000), 3)

\* chapter.end_time - chapter.start_time with the subtraction left out
duration_end_only(ch) == ch.end_time

\* let duration = chapter.end_time - chapter.start_time
duration(ch) == ch.end_time - ch.start_time

\* ------------------------------------------------------------- sample data
Chapter(title, s, e) == [title |-> title, start_time |-> s, end_time |-> e]

\* two titles that sanitize to the same string, the spec's example times,
\* a non-positive duration and a fractional one
SampleChapters ==
    { Chapter(<<"a">>, 0, 10000),
      Chapter(<<"a", "/">>, 10000, 25000),
      Chapter(<<"b">>, 25000, 10000),
      Chapter(<<"a">>, 1500, 1507) }

SeqsUpTo(S, n) == UNION { [1..k -> S] : k \in 0..n }

UrlChars == {BS, "?", "=", "&", "a"}

SampleUrl == <<"a", BS, "?", "v", BS, "=", "x", BS, "&", "t">>

ProbeTitles == { <<>>, <<"a">>, <<"a", "/">>, <<"1", "_", "a">> }

\* ------------------------------------------------------------------- state
VARIABLES
    args,          \* Args: keep_full, formats
    url,           \* args.url
    cleaned_url,   \* main: cleaned_url
    meta,          \* what yt-dlp --dump-json answers: the chapters field
    video_info,    \* main: video_info.chapters (Option<Vec<Chapter>>)
    pc,            \* position of main
    idx,           \* 1-based chapter index of the running loop
    sub,           \* 1..3: sub-operation of generate_format_variants
    ytdlp_calls,   \* invocations of yt-dlp so far
    ffmpeg_calls,  \* invocations of ffmpeg so far
    files,         \* complete output files on disk
    full_video,    \* does <output_dir>/full_video.mp4 exist
    video_path,    \* main: video_path, <<>> before download_video returned
    err,           \* the error main returned (printed, exit code non-zero)
    probe          \* inputs and results of the file-name function

vars == <<args, url, cleaned_url, meta, video_info, pc, idx, sub, ytdlp_calls,
          ffmpeg_calls, files, full_video, video_path, err, probe>>

NoErr == [msg |-> "", arg |-> <<>>]
Err(msg, arg) == [msg |-> msg, arg |-> arg]

Absent == [some |-> FALSE, list |-> <<>>]
Some(l) == [some |-> TRUE, list |-> l]

NoProbe == [i |-> 0, j |-> 0, ti |-> <<>>, tj |-> <<>>, fi |-> <<>>, fj |-> <<>>]

FullVideoPath == <<"full_video.mp4">>

Outcomes == {"ok", "nonzero", "spawnfail"}

VariantKinds == <<"vertical", "audio_only", "no_audio">>

VariantDir(kind) == kind

VariantExt(kind) == IF kind = "audio_only" THEN <<".", "m", "p", "3">>
                    ELSE <<".", "m", "p", "4">>

VariantMsg(kind) ==
    IF kind = "vertical" THEN "Failed to create vertical format"
    ELSE IF kind = "audio_only" THEN "Failed to create audio only format"
    ELSE "Failed to create no audio format"

Path(dir, file) == [dir |-> dir, file |-> file]

chapters == video_info.list

InitCommon ==
    /\ cleaned_url = <<>>
    /\ video_info = Absent
    /\ idx = 1
    /\ sub = 1
    /\ ytdlp_calls = <<>>
    /\ ffmpeg_calls = <<>>
    /\ files = {}
    /\ full_video = FALSE
    /\ video_path = <<>>
    /\ err = NoErr

Init ==
    /\ args \in [keep_full : BOOLEAN, formats : BOOLEAN]
    /\ url = SampleUrl
    /\ meta \in {Absent} \cup { Some(l) : l \in SeqsUpTo(SampleChapters, MaxChapters) }
    /\ pc = "check_ytdlp"
    /\ probe = NoProbe
    /\ InitCommon

\* ------------------------------------------------- decisions of the code
\* main: .context("No chapters found in this video")? without the
\* chapters.is_empty() check that follows it
no_chapters_absent_only(c) == ~c.some

\* main: chapters absent (None) or chapters.is_empty()
no_chapters(c) == ~c.some \/ Len(c.list) = 0

\* download_video without the video_path.exists() check
download_succeeded_status_only(status, exists) == status = "ok"

\* download_video: status.success() and video_path.exists()
download_succeeded(status, exists) == status = "ok" /\ exists

\* split_video_into_chapters with the exit status left unchecked
split_error_spawn_only(ch, outcome) ==
    IF outcome = "spawnfail" THEN Err("Failed to execute ffmpeg", <<>>)
    ELSE NoErr

\* split_video_into_chapters: .context("Failed to execute ffmpeg")? and
\* bail!("Failed to split chapter: {}", chapter.title)
split_error(ch, outcome) ==
    IF outcome = "spawnfail" THEN Err("Failed to execute ffmpeg", <<>>)
    ELSE IF outcome = "nonzero" THEN Err("Failed to split chapter: {}", ch.title)
    ELSE NoErr

\* generate_format_variants with the exit status checked as the splitter does
variant_error_checked(kind, outcome) ==
    IF outcome = "ok" THEN NoErr ELSE Err(VariantMsg(kind), <<>>)

\* generate_format_variants: .status().context("Failed to create ...")?;
\* the ExitStatus is dropped
variant_error(kind, outcome) ==
    IF outcome = "spawnfail" THEN Err(VariantMsg(kind), <<>>) ELSE NoErr

\* cleanup regardless of the flag
should_remove_always(keep_full) == TRUE

\* main: if !args.keep_full
should_remove(keep_full) == ~keep_full

\* an error path that still runs the cleanup
after_stage_error_cleanup == "cleanup"

\* main: split_video_into_chapters(..)? / generate_format_variants(..)?
\* return from main at once
after_stage_error == "failed"

\* what an ffmpeg run does to its output file (-y: overwrite)
ffmpeg_effect(fs, out, outcome, clobber) ==
    IF outcome = "ok" THEN fs \cup {out}
    ELSE IF outcome = "nonzero" /\ clobber THEN fs \ {out}
    ELSE fs

\* ----------------------------------------------------------------- actions
Fail(e) == /\ pc' = "failed"
           /\ err' = e

\* check_dependency(name): only a spawn failure is an error
CheckDependency(name, here, next) ==
    /\ pc = here
    /\ \E spawned \in BOOLEAN :
          IF spawned
          THEN pc' = next /\ err' = err
          ELSE Fail(Err("{} is not installed or not in PATH", <<name>>))
    /\ UNCHANGED <<args, url, cleaned_url, meta, video_info, idx, sub,
                   ytdlp_calls, ffmpeg_calls, files, full_video, video_path,
                   probe>>

\* let cleaned_url = clean_url(&args.url)
CleanUrl ==
    /\ pc = "clean_url"
    /\ cleaned_url' = clean_url(url)
    /\ pc' = "get_info"
    /\ UNCHANGED <<args, url, meta, video_info, idx, sub, ytdlp_calls,
                   ffmpeg_calls, files, full_video, video_path, err, probe>>

\* get_video_info(&cleaned_url)?
GetVideoInfo ==
    /\ pc = "get_info"
    /\ \E outcome \in {"spawnfail", "nonzero", "badutf8", "badjson", "ok"} :
          /\ ytdlp_calls' = IF outcome = "spawnfail" THEN ytdlp_calls
                            ELSE Append(ytdlp_calls,
                                        [mode |-> "dump-json", url |-> cleaned_url,
                                         result |-> outcome,
                                         exists |-> FALSE])
          /\ IF outcome = "ok"
             THEN /\ video_info' = meta
                  /\ pc' = "chapters"
                  /\ err' = err
             ELSE /\ video_info' = video_info
                  /\ Fail(Err(CASE outcome = "spawnfail" -> "Failed to execute yt-dlp"
                                [] outcome = "nonzero" -> "yt-dlp failed: {}"
                                [] outcome = "badutf8" -> "Failed to parse yt-dlp output"
                                [] OTHER -> "Failed to parse video information",
                              <<>>))
    /\ UNCHANGED <<args, url, cleaned_url, meta, idx, sub, ffmpeg_calls,
                   files, full_video, video_path, probe>>

\* main: the chapters of video_info must be present and not empty
CheckChapters ==
    /\ pc = "chapters"
    /\ IF no_chapters(video_info)
       THEN Fail(Err("No chapters found in this video", <<>>))
       ELSE pc' = "mkdir" /\ err' = err
    /\ UNCHANGED <<args, url, cleaned_url, meta, video_info, idx, sub,
                   ytdlp_calls, ffmpeg_calls, files, full_video, video_path,
                   probe>>

\* fs::create_dir_all(&clips_dir).context("Failed to create clips directory")?
CreateClipsDir ==
    /\ pc = "mkdir"
    /\ \E ok \in BOOLEAN :
          IF ok THEN pc' = "download" /\ err' = err
          ELSE Fail(Err("Failed to create clips directory", <<>>))
    /\ UNCHANGED <<args, url, cleaned_url, meta, video_info, idx, sub,
                   ytdlp_calls, ffmpeg_calls, files, full_video, video_path,
                   probe>>

\* download_video(&cleaned_url, &output_dir)?
DownloadVideo ==
    /\ pc = "download"
    /\ \E status \in Outcomes, exists \in BOOLEAN :
          /\ status = "spawnfail" => exists = full_video
          /\ full_video' = exists
          /\ ytdlp_calls' = IF status = "spawnfail" THEN ytdlp_calls
                            ELSE Append(ytdlp_calls,
                                        [mode |-> "download", url |-> cleaned_url,
                                         result |-> status, exists |-> exists])
          /\ IF download_succeeded(status, exists)
             THEN /\ video_path' = FullVideoPath
                  /\ pc' = "split"
                  /\ err' = err
             ELSE /\ video_path' = video_path
                  /\ Fail(Err(CASE status = "spawnfail" -> "Failed to execute yt-dlp"
                                [] status = "nonzero" -> "Failed to download video"
                                [] OTHER -> "Downloaded video file not found",
                              <<>>))
    /\ idx' = 1
    /\ UNCHANGED <<args, url, cleaned_url, meta, video_info, sub,
                   ffmpeg_calls, files, probe>>

\* split_video_into_chapters: one iteration of the loop; after the last
\* chapter main goes on to the formats branch or to the cleanup
SplitChapter ==
    /\ pc = "split"
    /\ idx <= Len(chapters)
    /\ \E outcome \in Outcomes, clobber \in BOOLEAN :
          LET ch  == chapters[idx]
              out == Path("clips", output_filename(idx, ch.title))
              e   == split_error(ch, outcome)
          IN  /\ outcome = "ok" => full_video
              /\ ffmpeg_calls' = Append(ffmpeg_calls,
                                        [kind |-> "split", chapter |-> idx,
                                         input |-> video_path,
                                         ss |-> Fmt3(ch.start_time),
                                         t |-> Fmt3(duration(ch)),
                                         out |-> out, outcome |-> outcome])
              /\ files' = ffmpeg_effect(files, out, outcome, clobber)
              /\ IF e # NoErr
                 THEN /\ pc' = after_stage_error
                      /\ err' = e
                      /\ idx' = idx
                 ELSE /\ err' = err
                      /\ IF idx < Len(chapters)
                         THEN pc' = "split" /\ idx' = idx + 1
                         ELSE /\ pc' = IF args.formats THEN "formats_mkdir"
                                       ELSE "cleanup"
                              /\ idx' = 1
    /\ UNCHANGED <<args, url, cleaned_url, meta, video_info, sub, ytdlp_calls,
                   full_video, video_path, probe>>

\* main: create_dir_all(&formats_dir); generate_format_variants: the three
\* create_dir_all calls
CreateFormatDirs ==
    /\ pc = "formats_mkdir"
    /\ \E outcome \in {"ok", "formats_dir", "sub_dir"} :
          IF outcome = "ok" THEN pc' = "variants" /\ err' = err
          ELSE /\ pc' = after_stage_error
               /\ err' = Err(IF outcome = "formats_dir"
                             THEN "Failed to create formats directory"
                             ELSE "io error", <<>>)
    /\ idx' = 1
    /\ sub' = 1
    /\ UNCHANGED <<args, url, cleaned_url, meta, video_info, ytdlp_calls,
                   ffmpeg_calls, files, full_video, video_path, probe>>

\* generate_format_variants: one of the three ffmpeg runs of one chapter
VariantOp ==
    /\ pc = "variants"
    /\ idx <= Len(chapters)
    /\ \E outcome \in Outcomes, clobber \in BOOLEAN :
          LET ch   == chapters[idx]
              kind == VariantKinds[sub]
              out  == Path(VariantDir(kind),
                           base_filename(idx, ch.title) \o VariantExt(kind))
              e    == variant_error(kind, outcome)
          IN  /\ outcome = "ok" => full_video
              /\ ffmpeg_calls' = Append(ffmpeg_calls,
                                        [kind |-> kind, chapter |-> idx,
                                         input |-> video_path,
                                         ss |-> Fmt3(ch.start_time),
                                         t |-> Fmt3(duration(ch)),
                                         out |-> out, outcome |-> outcome])
              /\ files' = ffmpeg_effect(files, out, outcome, clobber)
              /\ IF e # NoErr
                 THEN /\ pc' = after_stage_error
                      /\ err' = e
                      /\ UNCHANGED <<idx, sub>>
                 ELSE /\ err' = err
                      /\ IF sub < 3
                         THEN pc' = "variants" /\ sub' = sub + 1 /\ idx' = idx
                         ELSE IF idx < Len(chapters)
                              THEN pc' = "variants" /\ sub' = 1 /\ idx' = idx + 1
                              ELSE pc' = "cleanup" /\ sub' = 1 /\ idx' = 1
    /\ UNCHANGED <<args, url, cleaned_url, meta, video_info, ytdlp_calls,
                   full_video, video_path, probe>>

\* main: if !args.keep_full { fs::remove_file(&video_path)? }; Ok(())
Cleanup ==
    /\ pc = "cleanup"
    /\ IF should_remove(args.keep_full)
       THEN \E removed \in BOOLEAN :
               IF removed
               THEN full_video' = FALSE /\ pc' = "done" /\ err' = err
               ELSE /\ full_video' = full_video
                    /\ Fail(Err("Failed to remove full video file", <<>>))
       ELSE full_video' = full_video /\ pc' = "done" /\ err' = err
    /\ UNCHANGED <<args, url, cleaned_url, meta, video_info, idx, sub,
                   ytdlp_calls, ffmpeg_calls, files, video_path, probe>>

CheckYtDlp == CheckDependency("yt-dlp", "check_ytdlp", "check_ffmpeg")

CheckFfmpeg == CheckDependency("ffmpeg", "check_ffmpeg", "clean_url")

Next ==
    \/ CheckYtDlp
    \/ CheckFfmpeg
    \/ CleanUrl
    \/ GetVideoInfo
    \/ CheckChapters
    \/ CreateClipsDir
    \/ DownloadVideo
    \/ SplitChapter
    \/ CreateFormatDirs
    \/ VariantOp
    \/ Cleanup

Spec == Init /\ [][Next]_vars

Terminal == {"done", "failed"}

\* ------------------------------------------- the URL normalizer on its own
InitClean ==
    /\ args = [keep_full |-> FALSE, formats |-> FALSE]
    /\ url \in SeqsUpTo(UrlChars, MaxUrlLen)
    /\ meta = Absent
    /\ pc = "clean_url"
    /\ probe = NoProbe
    /\ InitCommon

NextClean == CleanUrl

SpecClean == InitClean /\ [][NextClean]_vars

\* ------------------------------------ the file names of two chapters i < j
InitNames ==
    /\ args = [keep_full |-> FALSE, formats |-> FALSE]
    /\ url = SampleUrl
    /\ meta = Absent
    /\ pc = "names"
    /\ \E i \in 1..MaxIndex, j \in 1..MaxIndex, ti \in ProbeTitles, tj \in ProbeTitles :
          /\ i < j
          /\ probe = [i |-> i, j |-> j, ti |-> ti, tj |-> tj,
                      fi |-> <<>>, fj |-> <<>>]
    /\ InitCommon

\* split_video_into_chapters: the output_filename of iterations i and j
NameChapters ==
    /\ pc = "names"
    /\ probe' = [probe EXCEPT !.fi = output_filename(probe.i, probe.ti),
                              !.fj = output_filename(probe.j, probe.tj)]
    /\ pc' = "named"
    /\ UNCHANGED <<args, url, cleaned_url, meta, video_info, idx, sub,
                   ytdlp_calls, ffmpeg_calls, files, full_video, video_path,
                   err>>

NextNames == NameChapters

SpecNames == InitNames /\ [][NextNames]_vars

\* --------------------------------------------------- reading the results
Calls(kinds) == SelectSeq(ffmpeg_calls, LAMBDA c : c.kind \in kinds)

SplitCalls == Calls({"split"})

VariantCalls == Calls({"vertical", "audio_only", "no_audio"})

KindNo(kind) == CHOOSE k \in 1..3 : VariantKinds[k] = kind

\* position of a variant run in the order chapter 1: vertical, audio_only,
\* no_audio; chapter 2: ...
OpNo(c) == 3 * (c.chapter - 1) + KindNo(c.kind)

Digits == { DigitChar[k] : k \in 1..10 }

DigitVal(c) == CHOOSE d \in 0..9 : DigitChar[d + 1] = c

RECURSIVE NumVal(_)
NumVal(s) ==
    IF Len(s) = 0 THEN 0
    ELSE 10 * NumVal(SubSeq(s, 1, Len(s) - 1)) + DigitVal(s[Len(s)])

AllDigits(s) == Len(s) > 0 /\ \A k \in 1..Len(s) : s[k] \in Digits

Unsigned(s) == IF Len(s) > 0 /\ s[1] = "-" THEN Tail(s) ELSE s

\* s is [-]digits.ddd
ThreeDecimals(s) ==
    LET b == Unsigned(s)
    IN  /\ Len(b) >= 5
        /\ b[Len(b) - 3] = "."
        /\ AllDigits(SubSeq(b, 1, Len(b) - 4))
        /\ AllDigits(SubSeq(b, Len(b) - 2, Len(b)))

\* the number of milliseconds a [-]digits.ddd string denotes
ParseMs(s) ==
    LET b == Unsigned(s)
        v == 1000 * NumVal(SubSeq(b, 1, Len(b) - 4))
                + NumVal(SubSeq(b, Len(b) - 2, Len(b)))
    IN  IF b = s THEN v ELSE -v

\* the part of a file name before its first underscore
NumPrefix(f) ==
    LET p == CHOOSE q \in 1..Len(f) :
                 f[q] = "_" /\ \A r \in 1..(q - 1) : f[r] # "_"
    IN  SubSeq(f, 1, p - 1)

Fetched == \E k \in 1..Len(ytdlp_calls) :
              ytdlp_calls[k].mode = "dump-json" /\ ytdlp_calls[k].result = "ok"

DownloadCalls == SelectSeq(ytdlp_calls, LAMBDA c : c.mode = "download")

NoChaptersErr == Err("No chapters found in this video", <<>>)

DoubledEscape(u) ==
    \E p \in 1..(Len(u) - 2) :
        u[p] = BS /\ u[p + 1] = BS /\ u[p + 2] \in {"?", "=", "&"}

\* ------------------------------------------------------------ properties

\* C1 as stated: a failed split run (non-zero exit or not started) is the
\* last ffmpeg run, the run has ended with an error that names the failing
\* chapter, and the clips of the earlier chapters are on disk.
C1_NamedErrorOnAnySplitFailure ==
    \A p \in 1..Len(ffmpeg_calls) :
        LET c == ffmpeg_calls[p]
        IN  (c.kind = "split" /\ c.outcome # "ok") =>
                /\ p = Len(ffmpeg_calls)
                /\ pc = "failed"
                /\ err = Err("Failed to split chapter: {}", chapters[c.chapter].title)
                /\ \A q \in 1..(p - 1) : ffmpeg_calls[q].out \in files

\* C1 amended: a failed split run is the last ffmpeg run, the run has ended
\* with an error and the clips of the earlier chapters are on disk; the
\* error names the failing chapter when ffmpeg exited non-zero and is the
\* generic "Failed to execute ffmpeg" when ffmpeg could not be started.
C1_SplitFailureAborts ==
    \A p \in 1..Len(ffmpeg_calls) :
        LET c == ffmpeg_calls[p]
        IN  (c.kind = "split" /\ c.outcome # "ok") =>
                /\ p = Len(ffmpeg_calls)
                /\ pc = "failed"
                /\ c.outcome = "nonzero" =>
                       err = Err("Failed to split chapter: {}",
                                 chapters[c.chapter].title)
                /\ c.outcome = "spawnfail" =>
                       err = Err("Failed to execute ffmpeg", <<>>)
                /\ \A q \in 1..(p - 1) : ffmpeg_calls[q].out \in files

C1_Witness ==
    /\ Len(ffmpeg_calls) = 2
    /\ ffmpeg_calls[2].kind = "split"
    /\ ffmpeg_calls[2].outcome = "nonzero"
    /\ ffmpeg_calls[1].out \in files
    /\ pc = "failed"

C3_NoChaptersFailsBeforeDownload ==
    (~meta.some \/ Len(meta.list) = 0) =>
        /\ Len(DownloadCalls) = 0
        /\ ffmpeg_calls = <<>>
        /\ pc # "done"
        /\ (Fetched /\ pc # "chapters") => (pc = "failed" /\ err = NoChaptersErr)

C3_Witness ==
    /\ meta = Some(<<>>)
    /\ Fetched
    /\ pc = "failed"
    /\ err = NoChaptersErr

\* C4: after a run that ended with exit code 0, full_video.mp4 exists
\* exactly when the keep-full flag was given.
C4_FullVideoKeptIffFlag ==
    pc = "done" => (err = NoErr /\ (full_video <=> args.keep_full))

C4_Witness ==
    /\ pc = "done"
    /\ ~args.keep_full
    /\ args.formats
    /\ ~full_video
    /\ Len(VariantCalls) > 0

\* C5 as stated: cleaning a cleaned URL changes nothing, for every URL.
C5_CleanUrlIdempotent ==
    pc = "get_info" => clean_url(cleaned_url) = cleaned_url

\* C5 amended: cleaning a cleaned URL changes nothing for every URL in which
\* no escape sequence (backslash then ?, = or &) is itself preceded by a
\* backslash.
C5_IdempotentWithoutDoubledEscape ==
    (pc = "get_info" /\ ~DoubledEscape(url)) =>
        clean_url(cleaned_url) = cleaned_url

C5_Witness ==
    /\ pc = "get_info"
    /\ ~DoubledEscape(url)
    /\ cleaned_url # url
    /\ Len(url) = MaxUrlLen

\* C6: at the end of a run, every variant run that failed (non-zero exit
\* included) has its "Failed to create ... format" message surfaced.
C6_EveryVariantFailureReported ==
    pc \in Terminal =>
        \A p \in 1..Len(VariantCalls) :
            VariantCalls[p].outcome # "ok" =>
                err.msg = VariantMsg(VariantCalls[p].kind)

\* C7: a download that exits non-zero, or exits zero without leaving
\* full_video.mp4, ends the run with no ffmpeg run at all; ffmpeg runs only
\* after a download that exited zero and left the file.
C7_NoTranscodeWithoutDownload ==
    /\ \A k \in 1..Len(DownloadCalls) :
          (DownloadCalls[k].result # "ok" \/ ~DownloadCalls[k].exists) =>
              (pc = "failed" /\ ffmpeg_calls = <<>>)
    /\ ffmpeg_calls # <<>> =>
          \E k \in 1..Len(DownloadCalls) :
              DownloadCalls[k].result = "ok" /\ DownloadCalls[k].exists

C7_Witness ==
    /\ pc = "failed"
    /\ Len(DownloadCalls) = 1
    /\ DownloadCalls[1].result = "ok"
    /\ ~DownloadCalls[1].exists
    /\ err.msg = "Downloaded video file not found"

\* C8: the file names of two different chapters differ, and each begins,
\* before its first underscore, with the decimal digits of the chapter's
\* 1-based index, at least two of them.
C8_FileNamesDistinctAndNumbered ==
    pc = "named" =>
        /\ probe.fi # probe.fj
        /\ \A x \in {<<probe.i, probe.fi>>, <<probe.j, probe.fj>>} :
              LET num == NumPrefix(x[2])
              IN  /\ AllDigits(num)
                  /\ Len(num) >= 2
                  /\ NumVal(num) = x[1]
                  /\ (x[1] < 10 => num[1] = "0")

C8_Witness ==
    /\ pc = "named"
    /\ probe.i < 10
    /\ probe.j >= 100
    /\ probe.ti # probe.tj
    /\ sanitize(probe.ti) = sanitize(probe.tj)

\* C9: every split run has -ss and -t in the form [-]digits.ddd, denoting
\* the chapter's start_time and end_time - start_time; the split runs are
\* made in chapter order whatever the times are, a chapter with
\* end_time <= start_time included; (0,10) gives 10.000, (10,25) 15.000.
C9_SplitSeekAndDuration ==
    /\ \A p \in 1..Len(SplitCalls) :
          LET c  == SplitCalls[p]
              ch == chapters[c.chapter]
          IN  /\ c.chapter = p
              /\ ThreeDecimals(c.ss)
              /\ ThreeDecimals(c.t)
              /\ ParseMs(c.ss) = ch.start_time
              /\ ParseMs(c.t) + ch.start_time = ch.end_time
              /\ (ch.start_time = 0 /\ ch.end_time = 10000) =>
                     c.t = <<"1", "0", ".", "0", "0", "0">>
              /\ (ch.start_time = 10000 /\ ch.end_time = 25000) =>
                     c.t = <<"1", "5", ".", "0", "0", "0">>
    /\ pc \in {"formats_mkdir", "variants", "cleanup", "done"} =>
          Len(SplitCalls) = Len(chapters)

C9_Witness ==
    /\ Len(SplitCalls) = 2
    /\ SplitCalls[1].t = <<"1", "5", ".", "0", "0", "0">>
    /\ chapters[2].end_time <= chapters[2].start_time
    /\ SplitCalls[2].t = <<"-", "1", "5", ".", "0", "0", "0">>

\* C10: once the download has succeeded, a run that ends with an error
\* leaves full_video.mp4 on disk, and the file is gone only when the run
\* is over, succeeded, and the keep-full flag was not given.
C10_CleanupOnlyOnSuccess ==
    video_path # <<>> =>
        /\ (pc = "failed" \/ err # NoErr) => full_video
        /\ ~full_video => (pc = "done" /\ ~args.keep_full)

C10_Witness ==
    /\ pc = "failed"
    /\ ~args.keep_full
    /\ full_video
    /\ err.msg = "Failed to split chapter: {}"
    /\ Len(ffmpeg_calls) = 2

====
